---- MODULE Spec2Model ----
(***************************************************************************)
(* Model of the CGWB Coimbatore pipeline (src/csv1.py) and of the          *)
(* standalone importer (src/mongo.py):                                     *)
(*   scrape_coimbatore_data -> filter_cgwb_data -> merge_well_readings     *)
(*   -> import_well_data                                                   *)
(***************************************************************************)
EXTENDS Integers, Sequences, FiniteSets, TLC

\* ------------------------------------------------------------------------
\* Bounds of the model
\* ------------------------------------------------------------------------
MaxWells == 3

\* ------------------------------------------------------------------------
\* State
\* ------------------------------------------------------------------------
VARIABLES
    \* scrape_coimbatore_data
    spc,            \* position of the scraper in its code
    idx,            \* loop variable of the per-well loop
    stats,          \* {'wells_found', 'wells_downloaded', 'wells_failed'}
    doc,            \* state of the interactive document (the page)
    attempts,       \* wells for which an iteration of the loop has begun
    outcome,        \* per well: how the loop counted it
    failures,       \* per well: the steps of its cycle that failed
    abortedAt,      \* where the run ended before the per-well loop, or ""
    cells,          \* td texts read for the current well (<<>>: not read)
    well_info,      \* metadata of the current well
    download,       \* content of the file exported for the current well
    temp,           \* wells whose temp_<idx>.csv exists
    headers_written,\* headers_written[0]
    master,         \* rows written to Coimbatore_CGWB_All_Data.csv
    visible,        \* return affordances visible when the well's return ran
    probed,         \* affordances whose is_visible was called, in order
    clicked,        \* affordances whose click was called, in order
    \* filter_cgwb_data, merge_well_readings
    ppc,            \* next stage of the filter/pivot part of main
    rawLog,         \* rows of Coimbatore_CGWB_All_Data.csv
    filtered,       \* rows of Coimbatore_CGWB_2025_Filtered.csv
    final_cols,     \* header of Coimbatore_CGWB_2025_Merged.csv
    wide,           \* rows of Coimbatore_CGWB_2025_Merged.csv
    \* import_well_data
    ipc,            \* position of the importer in its code
    impl,           \* which import_well_data runs: "csv1" or "mongo"
    records,        \* rows of the CSV file read by the importer
    ri,             \* row of the CSV file the loop is at
    istats,         \* inserted / updated / unchanged / skipped / errors
    store,          \* the collection: the documents held for each wellId
    pending,        \* well_doc of the update_one in progress
    matched,        \* whether the filter of that update_one matched
    run,            \* 1 for the first run on the file, 2 for the re-run
    stats1,         \* the counters at the end of the first run
    store1,         \* the collection at the end of the first run
    faults,         \* update_one calls that raised a store error so far
    \* another writer of the same collection
    wpc,            \* position of the other writer
    wpending,       \* document of its update_one in progress
    wmatched,       \* whether the filter of that update_one matched
    wops            \* update_one calls it has issued

returnVars == <<visible, probed, clicked>>

logVars == <<cells, well_info, download, temp, headers_written, master,
             returnVars>>

scrapeVars == <<spc, idx, stats, doc, attempts, outcome, failures, abortedAt,
                logVars>>

pipeVars == <<ppc, rawLog, filtered, final_cols, wide>>

importVars == <<ipc, impl, records, ri, istats, store, pending, matched,
                run, stats1, store1, faults>>

writerVars == <<wpc, wpending, wmatched, wops>>

nonScrapeVars == <<pipeVars, importVars, writerVars>>

nonPipeVars == <<scrapeVars, importVars, writerVars>>

nonImportVars == <<scrapeVars, pipeVars, writerVars>>

nonWriterVars == <<scrapeVars, pipeVars>>

vars == <<scrapeVars, pipeVars, importVars, writerVars>>

Wells == 1..MaxWells

\* ========================================================================
\* SCRIPT 1: scrape_coimbatore_data
\* ========================================================================

NoInfo ==
    [well_id |-> "", village |-> "", latitude |-> "", longitude |-> "",
     block |-> ""]

NoFile == [readable |-> FALSE, header |-> <<>>, rows |-> <<>>, failAt |-> 0]

\* csv_file = open(output_path, 'w'); headers_written = [False]
LogStart ==
    /\ cells = <<>>
    /\ well_info = NoInfo
    /\ download = NoFile
    /\ temp = {}
    /\ headers_written = FALSE
    /\ master = <<>>
    /\ visible = {}
    /\ probed = <<>>
    /\ clicked = <<>>

ScrapeStart ==
    /\ spc = "open"
    /\ idx = 0
    /\ stats = [wells_found |-> 0, wells_downloaded |-> 0, wells_failed |-> 0]
    /\ doc = "Idle"
    /\ attempts = <<>>
    /\ outcome = [w \in Wells |-> "none"]
    /\ failures = [w \in Wells |-> {}]
    /\ abortedAt = ""
    /\ LogStart

PipeIdle ==
    /\ ppc = "idle"
    /\ rawLog = <<>>
    /\ filtered = <<>>
    /\ final_cols = <<>>
    /\ wide = <<>>

\* f'well_{idx}'
WellName(i) ==
    CASE i = 1 -> "well_1"
      [] i = 2 -> "well_2"
      [] i = 3 -> "well_3"
      [] i = 4 -> "well_4"
      [] OTHER -> "well_n"

\* The wellId values of the collection.
WellIds == {"W1", "W2", "W3"} \cup {WellName(i) : i \in Wells}

ZeroStats ==
    [inserted |-> 0, updated |-> 0, unchanged |-> 0, skipped |-> 0, errors |-> 0]

NoDoc == [wellId |-> ""]

ImportIdle ==
    /\ ipc = "idle"
    /\ impl = "csv1"
    /\ records = <<>>
    /\ ri = 0
    /\ istats = ZeroStats
    /\ store = [w \in WellIds |-> <<>>]
    /\ pending = NoDoc
    /\ matched = FALSE
    /\ run = 1
    /\ stats1 = ZeroStats
    /\ store1 = [w \in WellIds |-> <<>>]
    /\ faults = 0

WriterIdle ==
    /\ wpc = "idle"
    /\ wpending = NoDoc
    /\ wmatched = FALSE
    /\ wops = 0

\* The outer "except Exception" / "return" of the navigation part: the run
\* ends before the per-well loop, the counters are left as they are.
AbortRunGoesOn(cause) ==
    /\ spc' = "enumerate"
    /\ abortedAt' = cause
    /\ UNCHANGED <<idx, stats, doc, attempts, outcome, failures, logVars>>

AbortRun(cause) ==
    /\ spc' = "done"
    /\ abortedAt' = cause
    /\ UNCHANGED <<idx, stats, doc, attempts, outcome, failures, logVars>>

\* page.goto + wait_for_load_state; a timeout raises into the outer except.
OpenSite ==
    /\ UNCHANGED nonScrapeVars
    /\ spc = "open"
    /\ \/ /\ spc' = "filters"
          /\ doc' = "ListLoaded"
          /\ UNCHANGED <<idx, stats, attempts, outcome, failures, abortedAt,
                         logVars>>
       \/ AbortRun("open")

\* Cascading filter: agency -> project -> state -> (district options
\* populated) -> district.  Any wait that times out raises.
SelectFilters ==
    /\ UNCHANGED nonScrapeVars
    /\ spc = "filters"
    /\ \/ /\ spc' = "click_filter"
          /\ UNCHANGED <<idx, stats, doc, attempts, outcome, failures,
                         abortedAt, logVars>>
       \/ AbortRun("filters")

\* Click on the Filter button, then wait for the table and set its length.
\* An error of the click returns; a table that shows no row in time raises;
\* a failure to set the page length is only a warning.
ClickFilter ==
    /\ UNCHANGED nonScrapeVars
    /\ spc = "click_filter"
    /\ \/ /\ spc' = "enumerate"
          /\ doc' = "TableReady"
          /\ UNCHANGED <<idx, stats, attempts, outcome, failures, abortedAt,
                         logVars>>
       \/ /\ spc' = "done"
          /\ doc' = "FilterApplied"
          /\ abortedAt' = "filter_click"
          /\ UNCHANGED <<idx, stats, attempts, outcome, failures, logVars>>
       \/ /\ spc' = "done"
          /\ doc' = "FilterApplied"
          /\ abortedAt' = "table"
          /\ UNCHANGED <<idx, stats, attempts, outcome, failures, logVars>>

\* radio_buttons = ....all(); stats['wells_found'] = len(radio_buttons)
Enumerate ==
    /\ UNCHANGED nonScrapeVars
    /\ spc = "enumerate"
    /\ \E n \in 0..MaxWells :
          /\ stats' = [stats EXCEPT !.wells_found = n]
          /\ IF n = 0
                THEN /\ spc' = "done"
                     /\ idx' = idx
                     /\ abortedAt' = "no_wells"
                ELSE /\ spc' = "loop"
                     /\ idx' = 1
                     /\ UNCHANGED abortedAt
    /\ UNCHANGED <<doc, attempts, outcome, failures, logVars>>

\* Variants of WellFailed: one that leaves the loop, one that forgets to count.
WellFailedBreak(i, step) ==
    /\ stats' = [stats EXCEPT !.wells_failed = @ + 1]
    /\ outcome' = [outcome EXCEPT ![i] = "failed"]
    /\ failures' = [failures EXCEPT ![i] = @ \cup {step}]
    /\ idx' = i
    /\ spc' = "done"

WellFailedNoCount(i, step) ==
    /\ stats' = stats
    /\ outcome' = [outcome EXCEPT ![i] = "failed"]
    /\ failures' = [failures EXCEPT ![i] = @ \cup {step}]
    /\ idx' = i + 1
    /\ spc' = "loop"

\* A step of well i's cycle failed inside the loop's try: the handler (or
\* the "not found" branch) counts the well as failed and continues.
WellFailed(i, step) ==
    /\ stats' = [stats EXCEPT !.wells_failed = @ + 1]
    /\ outcome' = [outcome EXCEPT ![i] = "failed"]
    /\ failures' = [failures EXCEPT ![i] = @ \cup {step}]
    /\ idx' = i + 1
    /\ spc' = "loop"

\* for idx in range(1, wells_found + 1): re-fetch the radio buttons; a well
\* whose row is no longer in the table is counted as failed.
LoopHead ==
    /\ UNCHANGED nonScrapeVars
    /\ spc = "loop"
    /\ idx <= stats.wells_found
    /\ attempts' = Append(attempts, idx)
    /\ visible' = {} /\ probed' = <<>> /\ clicked' = <<>>
    /\ UNCHANGED <<abortedAt, cells, well_info, download, temp,
                   headers_written, master>>
    /\ \/ \E current \in 0..MaxWells :
             IF idx > current
                THEN /\ WellFailed(idx, "row_missing")
                     /\ UNCHANGED doc
                ELSE /\ spc' = "select"
                     /\ UNCHANGED <<idx, stats, doc, outcome, failures>>
       \/ /\ WellFailed(idx, "refetch")
          /\ UNCHANGED doc

\* radio.click(); wait_for_selector(Export); optional Tabular View click.
SelectWell ==
    /\ UNCHANGED nonScrapeVars
    /\ spc = "select"
    /\ UNCHANGED <<attempts, abortedAt, logVars>>
    /\ \/ /\ doc' = "WellSelected"
          /\ spc' = "info"
          /\ UNCHANGED <<idx, stats, outcome, failures>>
       \/ /\ doc' = "WellSelected"
          /\ WellFailed(idx, "export_affordance")
       \/ /\ UNCHANGED doc
          /\ WellFailed(idx, "select")

\* str.strip() of the cell texts of the model.
Strip(t) ==
    CASE t = " " -> ""
      [] t = " Pollachi " -> "Pollachi"
      [] OTHER -> t

\* What row.locator("td").all_text_contents() can return for a well.
CellRows ==
    { <<"", "CGWB-7">>,
      <<"", " ", " Pollachi ", "10.5", "76.9">> }

\* well_info before the cells are read.
DefaultInfo(i) ==
    [well_id |-> WellName(i), village |-> "Unknown", latitude |-> "Unknown",
     longitude |-> "Unknown", block |-> "Unknown"]

\* well_info after "if len(cells) >= 5: ...": x.strip() or default.
ExtractedInfoNoDefault(i, c) ==
    IF Len(c) >= 5
       THEN [well_id |-> Strip(c[2]),
             village |-> Strip(c[3]),
             latitude |-> Strip(c[4]),
             longitude |-> Strip(c[5]),
             block |-> "Unknown"]
       ELSE DefaultInfo(i)

ExtractedInfo(i, c) ==
    IF Len(c) >= 5
       THEN [well_id |-> IF Strip(c[2]) # "" THEN Strip(c[2]) ELSE WellName(i),
             village |-> IF Strip(c[3]) # "" THEN Strip(c[3]) ELSE "Unknown",
             latitude |-> IF Strip(c[4]) # "" THEN Strip(c[4]) ELSE "Unknown",
             longitude |-> IF Strip(c[5]) # "" THEN Strip(c[5]) ELSE "Unknown",
             block |-> "Unknown"]
       ELSE DefaultInfo(i)

\* well_info = {...}; try: cells = ...; except: warning.  Reading the cells
\* may raise, which leaves the defaults.
ExtractWellInfo ==
    /\ UNCHANGED nonScrapeVars
    /\ spc = "info"
    /\ spc' = "export"
    /\ UNCHANGED <<idx, stats, doc, attempts, outcome, failures, abortedAt>>
    /\ UNCHANGED <<download, temp, headers_written, master, returnVars>>
    /\ \/ \E c \in CellRows :
             /\ cells' = c
             /\ well_info' = ExtractedInfo(idx, c)
       \/ /\ cells' = <<>>
          /\ well_info' = DefaultInfo(idx)

\* Files the export can produce: a header and data rows; readable is FALSE
\* for a file that cannot be decoded; failAt = k > 0 when reading data row k
\* raises (the rows before it are read).
CsvFile(h, r, k) == [readable |-> TRUE, header |-> h, rows |-> r, failAt |-> k]

FilePool ==
    { CsvFile(<<"Date", "Water Level">>,
              << <<"2025-01-10", "5.2">>, <<"2025-04-14", "6.0">> >>, 0),
      CsvFile(<<"Date", "Water Level">>,
              << <<"2025-01-10">>, <<"2025-04-14", "6.0">> >>, 0),
      CsvFile(<<"Water Level", "Date">>,
              << <<"6.5", "2025-01-16">>, <<"5.2", "2025-08-15">> >>, 2),
      NoFile }

\* with page.expect_download(timeout=15000): export_btn.click();
\* download.save_as(temp_download_path)
Export ==
    /\ UNCHANGED nonScrapeVars
    /\ spc = "export"
    /\ UNCHANGED <<attempts, abortedAt, cells, well_info, headers_written,
                   master, returnVars>>
    /\ \/ /\ doc' = "Exported"
          /\ spc' = "process"
          /\ \E f \in FilePool : download' = f
          /\ temp' = temp \cup {idx}
          /\ UNCHANGED <<idx, stats, outcome, failures>>
       \/ /\ UNCHANGED <<doc, download, temp>>
          /\ WellFailed(idx, "download")

\* A row as csv.DictReader yields it for the file's header: a field the
\* line lacks is None (written as an empty field).
DictRow(header, line) ==
    [k \in 1..Len(header) |-> IF k <= Len(line) THEN line[k] ELSE ""]

MetadataOf(info) ==
    <<info.well_id, info.village, info.latitude, info.longitude, info.block>>

\* csv_writer.writerow([well_info[...] x 5] + list(row.values())); line and
\* well record where the row came from.
OutputRowWithoutBlock(info, header, line, i) ==
    [hdr |-> FALSE,
     fields |-> <<info.well_id, info.village, info.latitude, info.longitude>>
                   \o DictRow(header, line),
     line |-> line,
     well |-> i]

OutputRow(info, header, line, i) ==
    [hdr |-> FALSE,
     fields |-> MetadataOf(info) \o DictRow(header, line),
     line |-> line,
     well |-> i]

\* csv_writer.writerow(['Well_ID', 'Village', 'Latitude', 'Longitude',
\* 'Block'] + list(reader.fieldnames))
HeaderRow(header, i) ==
    [hdr |-> TRUE,
     fields |-> <<"Well_ID", "Village", "Latitude", "Longitude", "Block">>
                   \o header,
     line |-> header,
     well |-> i]

\* The data lines DictReader yields before the file ends or reading raises
\* (it passes over empty lines).
LinesRead(file) ==
    LET n == IF file.failAt = 0 THEN Len(file.rows) ELSE file.failAt - 1
    IN SelectSeq(SubSeq(file.rows, 1, n), LAMBDA line : line # <<>>)

\* process_downloaded_csv(download_path, well_info, csv_writer,
\* headers_written): what it returns, headers_written[0] and the combined
\* log afterwards, and whether the file was unlinked.
process_downloaded_csv(file, info, hw, log, i) ==
    IF \/ ~file.readable
       \/ ~hw /\ file.header = <<>>
       THEN [ok |-> FALSE, headers_written |-> hw, master |-> log,
             unlinked |-> FALSE]
       ELSE LET log1 == IF hw THEN log ELSE Append(log, HeaderRow(file.header, i))
                lines == LinesRead(file)
            IN [ok |-> file.failAt = 0,
                headers_written |-> TRUE,
                master |-> log1 \o [k \in 1..Len(lines) |->
                                       OutputRow(info, file.header, lines[k], i)],
                unlinked |-> file.failAt = 0]

\* if process_downloaded_csv(...): wells_downloaded += 1
\* else: wells_failed += 1
Process ==
    /\ UNCHANGED nonScrapeVars
    /\ spc = "process"
    /\ UNCHANGED <<attempts, doc, idx, abortedAt, cells, well_info, download,
                   returnVars>>
    /\ spc' = "return"
    /\ LET p == process_downloaded_csv(download, well_info, headers_written,
                                       master, idx)
       IN /\ headers_written' = p.headers_written
          /\ master' = p.master
          /\ temp' = IF p.unlinked THEN temp \ {idx} ELSE temp
          /\ IF p.ok
                THEN /\ stats' = [stats EXCEPT !.wells_downloaded = @ + 1]
                     /\ outcome' = [outcome EXCEPT ![idx] = "downloaded"]
                     /\ UNCHANGED failures
                ELSE /\ stats' = [stats EXCEPT !.wells_failed = @ + 1]
                     /\ outcome' = [outcome EXCEPT ![idx] = "failed"]
                     /\ failures' = [failures EXCEPT ![idx] = @ \cup {"parse"}]

\* list_btn = page.locator("button.btn-list")
list_btn == "button.btn-list"

alt_selectors ==
    <<"button:has-text('Close')", "button.btn-primary.btn-list",
      "i.feather.icon-menu >> xpath=..">>

\* for selector in alt_selectors: if btn.is_visible(): btn.click(); break
\* The selectors probed from position k on, and the ones clicked.
RECURSIVE AltProbed(_, _)
AltProbed(vis, k) ==
    IF k > Len(alt_selectors) THEN <<>>
    ELSE IF alt_selectors[k] \in vis THEN <<alt_selectors[k]>>
    ELSE <<alt_selectors[k]>> \o AltProbed(vis, k + 1)

RECURSIVE AltClickedNoBreak(_, _)
AltClickedNoBreak(vis, k) ==
    IF k > Len(alt_selectors) THEN <<>>
    ELSE IF alt_selectors[k] \in vis
            THEN <<alt_selectors[k]>> \o AltClickedNoBreak(vis, k + 1)
    ELSE AltClickedNoBreak(vis, k + 1)

RECURSIVE AltClicked(_, _)
AltClicked(vis, k) ==
    IF k > Len(alt_selectors) THEN <<>>
    ELSE IF alt_selectors[k] \in vis THEN <<alt_selectors[k]>>
    ELSE AltClicked(vis, k + 1)

\* if list_btn.is_visible(): list_btn.click() else: the fallbacks.
ReturnProbed(vis) ==
    IF list_btn \in vis THEN <<list_btn>>
    ELSE <<list_btn>> \o AltProbed(vis, 1)

ReturnClicked(vis) ==
    IF list_btn \in vis THEN <<list_btn>> ELSE AltClicked(vis, 1)

\* What is_visible can answer for the four selectors when the return runs:
\* nothing visible, the primary (with a fallback also visible), and each
\* fallback as the first visible one.
ReturnViews ==
    { {},
      {list_btn, alt_selectors[1]},
      {alt_selectors[1], alt_selectors[3]},
      {alt_selectors[2], alt_selectors[3]},
      {alt_selectors[3]} }

\* Return to the list: an affordance is looked for and clicked; the inner
\* try logs a warning when the click raises, the wait for the table passes
\* silently when it times out (no click, a click that raised, or a click
\* after which the table does not show).  The iteration ends here: its
\* locals (cells, well_info, download) are dead and are bound anew by the
\* next iteration before they are read.
ReturnToList ==
    /\ UNCHANGED nonScrapeVars
    /\ spc = "return"
    /\ UNCHANGED <<attempts, stats, outcome, abortedAt, temp, headers_written,
                   master>>
    /\ cells' = <<>> /\ well_info' = NoInfo /\ download' = NoFile
    /\ idx' = idx + 1
    /\ spc' = "loop"
    /\ \E vis \in ReturnViews :
          /\ visible' = vis
          /\ probed' = ReturnProbed(vis)
          /\ clicked' = ReturnClicked(vis)
          /\ \/ /\ ReturnClicked(vis) # <<>>
                /\ doc' = "TableReady"
                /\ UNCHANGED failures
             \/ /\ UNCHANGED doc
                /\ failures' = [failures EXCEPT ![idx] = @ \cup {"return"}]

\* The loop is exhausted: the summary is logged.
Summary ==
    /\ UNCHANGED nonScrapeVars
    /\ spc = "loop"
    /\ idx > stats.wells_found
    /\ spc' = "done"
    /\ UNCHANGED <<idx, stats, doc, attempts, outcome, failures, abortedAt,
                   logVars>>

NextScrape ==
    \/ OpenSite
    \/ SelectFilters
    \/ ClickFilter
    \/ Enumerate
    \/ LoopHead
    \/ SelectWell
    \/ ExtractWellInfo
    \/ Export
    \/ Process
    \/ ReturnToList
    \/ Summary

ScrapeInit ==
    /\ ScrapeStart
    /\ PipeIdle
    /\ ImportIdle
    /\ WriterIdle

SpecScrape == ScrapeInit /\ [][NextScrape]_vars

\* ------------------------------------------------------------------------
\* Properties of the scraper
\* ------------------------------------------------------------------------

\* C1: when a run has ended, whether it went through the per-well loop or
\* stopped before it, wells_found = wells_downloaded + wells_failed.
C1_FoundIsDownloadedPlusFailed ==
    spc = "done" =>
        stats.wells_found = stats.wells_downloaded + stats.wells_failed

C1_Witness ==
    /\ spc = "done"
    /\ stats.wells_found = 3
    /\ stats.wells_downloaded >= 1
    /\ stats.wells_failed >= 1

FailedWells == {w \in Wells : outcome[w] = "failed"}

\* Each well is attempted once, in the order 1..N, and the loop runs to N.
AttemptsInOrder ==
    /\ \A k \in 1..Len(attempts) : attempts[k] = k
    /\ Len(attempts) <= stats.wells_found
    /\ (spc = "done" /\ stats.wells_found > 0) =>
           Len(attempts) = stats.wells_found

\* C2 as stated: the wells are attempted once each in the order 1..N, and a
\* failure of any step of a well's cycle, the return to the list included,
\* is recorded as a failed outcome of that well.
C2_AnyStepFailureIsFailedOutcome ==
    /\ AttemptsInOrder
    /\ \A w \in Wells : failures[w] # {} => outcome[w] = "failed"

\* C2 amended: the wells are attempted once each in the order 1..N and the
\* loop reaches N whatever fails; a failure of the re-fetch, the selection,
\* the export affordance, the download or the file processing is recorded
\* as a failed outcome of that well and of no other well; a failure of the
\* return to the list is only logged and leaves the outcome already
\* recorded for the well as it is.
C2_FailureIsolatedPerWell ==
    /\ AttemptsInOrder
    /\ \A w \in Wells :
          /\ (failures[w] \ {"return"}) # {} <=> outcome[w] = "failed"
          /\ (failures[w] = {"return"}) => outcome[w] = "downloaded"
          /\ outcome[w] # "none" => \E k \in 1..Len(attempts) : attempts[k] = w
    /\ stats.wells_failed = Cardinality(FailedWells)

C2_Witness ==
    /\ spc = "done"
    /\ "download" \in failures[1]
    /\ failures[2] = {"return"}
    /\ outcome[2] = "downloaded"
    /\ outcome[3] = "downloaded"

\* ------------------------------------------------------------------------
\* The combined log
\* ------------------------------------------------------------------------

HeaderRows == {k \in 1..Len(master) : master[k].hdr}

\* C11: the combined log holds exactly one header row, it is its first row,
\* and it is the five metadata names followed by the header of the first file
\* that was processed successfully.
C11_HeaderIsOfFirstSuccessfulFile ==
    master # <<>> =>
        /\ HeaderRows = {1}
        /\ LET w == master[1].well
           IN /\ outcome[w] = "downloaded"
              /\ \A v \in 1..(w - 1) : outcome[v] # "downloaded"

\* C12: a data row with fewer fields than the fixed header produces no row
\* of the combined log.
C12_ShortRowIsDropped ==
    \A k \in 1..Len(master) :
        ~master[k].hdr => Len(master[k].line) + 5 >= Len(master[1].fields)

\* The cell a metadata field is read from (0: the field is never read).
CellOf(f) ==
    CASE f = "well_id" -> 2
      [] f = "village" -> 3
      [] f = "latitude" -> 4
      [] f = "longitude" -> 5
      [] OTHER -> 0

Extracted(f) ==
    /\ CellOf(f) # 0
    /\ Len(cells) >= 5
    /\ Strip(cells[CellOf(f)]) # ""

InfoFields == {"well_id", "village", "latitude", "longitude", "block"}

InfoBound == spc \in {"export", "process", "return"}

\* C13 as stated: every metadata field that was not extracted from the cells,
\* the identity included, is "Unknown", and no field is empty.
C13_UnextractedFieldIsUnknown ==
    InfoBound =>
        \A f \in InfoFields :
            /\ well_info[f] # ""
            /\ ~Extracted(f) => well_info[f] = "Unknown"

\* C13: for every well of the per-well cycle, a field of village, latitude,
\* longitude, block that was not extracted from the cells is "Unknown", an
\* identity that was not extracted is well_<idx>, an extracted field is the
\* stripped cell, and no field is empty or absent.
C13_UnextractedFieldHasItsDefault ==
    InfoBound =>
        /\ DOMAIN well_info = InfoFields
        /\ \A f \in InfoFields :
              /\ well_info[f] # ""
              /\ Extracted(f) => well_info[f] = Strip(cells[CellOf(f)])
              /\ (~Extracted(f) /\ f # "well_id") => well_info[f] = "Unknown"
              /\ (~Extracted(f) /\ f = "well_id") =>
                    well_info[f] = WellName(idx)

C13_Witness ==
    /\ spc = "process"
    /\ idx = 2
    /\ cells = <<"", " ", " Pollachi ", "10.5", "76.9">>
    /\ well_info.well_id = "well_2"
    /\ well_info.village = "Pollachi"
    /\ well_info.latitude = "10.5"
    /\ well_info.longitude = "76.9"
    /\ well_info.block = "Unknown"

\* C14: when a cascading-filter dependency times out, or no row of the table
\* shows, or no well is listed after the filter, the run is over: no well was
\* selected or exported, the combined log is empty, no file was exported, and
\* wells_downloaded and wells_failed are 0.
C14_StructuralAbortLeavesNothing ==
    abortedAt \in {"filters", "table", "no_wells"} =>
        /\ spc = "done"
        /\ attempts = <<>>
        /\ doc \notin {"WellSelected", "Exported"}
        /\ \A w \in Wells : outcome[w] = "none"
        /\ master = <<>>
        /\ ~headers_written
        /\ temp = {}
        /\ stats.wells_downloaded = 0
        /\ stats.wells_failed = 0

C14_Witness ==
    /\ abortedAt = "no_wells"
    /\ doc = "TableReady"
    /\ spc = "done"
    /\ stats.wells_found = 0

WellFormed(file) ==
    /\ file.readable
    /\ file.failAt = 0
    /\ file.header # <<>>
    /\ \A k \in 1..Len(file.rows) : Len(file.rows[k]) = Len(file.header)

\* C19: process_downloaded_csv on a file of N well-formed data rows leaves
\* the earlier rows of the combined log as they are and appends, after the
\* header row if none was written yet, exactly N rows in file order, each the
\* five metadata fields of the well followed by the values of the raw row.
C19_NRowsAppendedInOrderWithMetadata ==
    [][(spc = "process" /\ WellFormed(download)) =>
          LET n == Len(download.rows)
              base == Len(master') - n
          IN /\ base = Len(master) + (IF headers_written THEN 0 ELSE 1)
             /\ SubSeq(master', 1, Len(master)) = master
             /\ \A k \in 1..n :
                   /\ ~master'[base + k].hdr
                   /\ master'[base + k].fields =
                         <<well_info.well_id, well_info.village,
                           well_info.latitude, well_info.longitude,
                           well_info.block>> \o download.rows[k]]_vars

C19_Witness ==
    /\ spc = "return"
    /\ idx = 2
    /\ WellFormed(download)
    /\ Len(download.rows) = 2
    /\ outcome[1] = "downloaded"
    /\ outcome[2] = "downloaded"
    /\ Len(master) >= 4
    /\ master[Len(master)].well = 2
    /\ master[Len(master) - 1].well = 2
    /\ master[Len(master) - 2].well = 1

\* C20: a cycle of the per-well loop only begins while the document shows the
\* table (TableReady), never while it still shows the previous well.
C20_CycleStartsFromTableReady ==
    [][attempts' # attempts => doc = "TableReady"]_vars

\* ------------------------------------------------------------------------
\* The return to the list and the transient files
\* ------------------------------------------------------------------------

VisibleFallbacks == {k \in 1..Len(alt_selectors) : alt_selectors[k] \in visible}

\* C21: when the return of a well has run, at most one affordance was
\* clicked: the primary one if it was visible, and then no fallback was
\* probed; otherwise the fallbacks were probed in their declared order up to
\* the first visible one, which was clicked, and none after it was probed.
C21_OneReturnClickPrimaryThenFallbacksInOrder ==
    probed # <<>> =>
        /\ Len(clicked) <= 1
        /\ probed[1] = list_btn
        /\ list_btn \in visible =>
              /\ probed = <<list_btn>>
              /\ clicked = <<list_btn>>
        /\ (list_btn \notin visible /\ VisibleFallbacks = {}) =>
              /\ probed = <<list_btn>> \o alt_selectors
              /\ clicked = <<>>
        /\ (list_btn \notin visible /\ VisibleFallbacks # {}) =>
              \E m \in VisibleFallbacks :
                  /\ \A k \in VisibleFallbacks : m <= k
                  /\ probed = <<list_btn>> \o SubSeq(alt_selectors, 1, m)
                  /\ clicked = <<alt_selectors[m]>>

C21_Witness ==
    /\ spc = "loop"
    /\ doc = "TableReady"
    /\ visible = {alt_selectors[2], alt_selectors[3]}
    /\ probed = <<list_btn, alt_selectors[1], alt_selectors[2]>>
    /\ clicked = <<alt_selectors[2]>>

\* C22: temp_<idx>.csv only exists between the export of well idx and the
\* end of the processing of its file; after it, and at the end of the run,
\* no transient file exists.
C22_NoTransientFileAfterProcessing ==
    \A w \in temp : w = idx /\ spc = "process"

\* C23: every row of the combined log, the header included, was written for
\* a well counted in wells_downloaded.
C23_LogHoldsOnlyRowsOfDownloadedWells ==
    \A k \in 1..Len(master) : outcome[master[k].well] = "downloaded"

\* ========================================================================
\* SCRIPT 2: filter_cgwb_data
\* ========================================================================

MONTHS_TO_KEEP == <<1, 4, 8, 11>>

YEAR == 2025

MaxReadings == 3

NaT == [year |-> 0, month |-> 0, day |-> 0]

\* pd.to_datetime(..., errors="coerce") on the date texts of the model: the
\* raw form, the form written by strftime("%Y-%m-%d %H:%M:%S"), NaT otherwise.
ToDatetime(s) ==
    CASE s \in {"2025-01-10", "2025-01-10 00:00:00"} -> [year |-> 2025, month |-> 1, day |-> 10]
      [] s \in {"2025-01-16", "2025-01-16 00:00:00"} -> [year |-> 2025, month |-> 1, day |-> 16]
      [] s \in {"2025-01-20", "2025-01-20 00:00:00"} -> [year |-> 2025, month |-> 1, day |-> 20]
      [] s \in {"2025-02-15", "2025-02-15 00:00:00"} -> [year |-> 2025, month |-> 2, day |-> 15]
      [] s \in {"2025-04-14", "2025-04-14 00:00:00"} -> [year |-> 2025, month |-> 4, day |-> 14]
      [] s \in {"2025-08-15", "2025-08-15 00:00:00"} -> [year |-> 2025, month |-> 8, day |-> 15]
      [] s \in {"2024-01-15", "2024-01-15 00:00:00"} -> [year |-> 2024, month |-> 1, day |-> 15]
      [] OTHER -> NaT

\* df["Date"].dt.strftime("%Y-%m-%d %H:%M:%S")
Strftime(dt) ==
    CASE dt = [year |-> 2025, month |-> 1, day |-> 10] -> "2025-01-10 00:00:00"
      [] dt = [year |-> 2025, month |-> 1, day |-> 16] -> "2025-01-16 00:00:00"
      [] dt = [year |-> 2025, month |-> 1, day |-> 20] -> "2025-01-20 00:00:00"
      [] dt = [year |-> 2025, month |-> 2, day |-> 15] -> "2025-02-15 00:00:00"
      [] dt = [year |-> 2025, month |-> 4, day |-> 14] -> "2025-04-14 00:00:00"
      [] dt = [year |-> 2025, month |-> 8, day |-> 15] -> "2025-08-15 00:00:00"
      [] dt = [year |-> 2024, month |-> 1, day |-> 15] -> "2024-01-15 00:00:00"
      [] OTHER -> ""

\* Rows the scraper can have written to the combined log: the five metadata
\* fields of the well, then the Date and the Water Level of the raw row
\* ("" is an empty field, read back as NaN).
Reading(w, v, lat, lon, d, l) ==
    [Well_ID |-> w, Village |-> v, Latitude |-> lat, Longitude |-> lon,
     Block |-> "Unknown", Date |-> d, Level |-> l]

ReadingPool ==
    {Reading("W1", "Pollachi", "10.5", "76.9", d, "5.2") :
        d \in {"n/a", "2024-01-15", "2025-02-15", "2025-01-10", "2025-01-20",
               "2025-01-16", "2025-04-14", "2025-08-15"}}
    \cup {Reading("W1", "Pollachi", "10.5", "76.9", "2025-04-14", "")}
    \cup {Reading("W2", "Unknown", "Unknown", "Unknown", d, "6.0") :
        d \in {"2025-01-16", "2025-04-14"}}
    \cup {Reading("W2", "NA", "Unknown", "76.9", "2025-01-16", "6.0"),
          Reading("W2", "Annur", "10,5", "76.9", "2025-04-14", "6.0")}

Logs == UNION {[1..n -> ReadingPool] : n \in 0..MaxReadings}

\* Order of the Well_ID values under sort_values / groupby.
WellRank(w) ==
    CASE w = "W1" -> 1
      [] w = "W2" -> 2
      [] w = "W3" -> 3
      [] w = "well_1" -> 4
      [] w = "well_2" -> 5
      [] w = "well_3" -> 6
      [] w = "well_4" -> 7
      [] OTHER -> 8

\* The elements of a set of row labels, ascending (the order of the frame).
RECURSIVE Ascending(_)
Ascending(S) ==
    IF S = {} THEN <<>>
    ELSE LET m == CHOOSE x \in S : \A y \in S : x <= y
         IN <<m>> \o Ascending(S \ {m})

\* df["Date"] = pd.to_datetime(...); df = df.dropna(subset=["Date"])
ParsedRows(log) == {i \in 1..Len(log) : ToDatetime(log[i].Date) # NaT}

\* df_2025 = df[df["Date"].dt.year == YEAR]
Rows2025(log) == {i \in ParsedRows(log) : ToDatetime(log[i].Date).year = YEAR}

\* df_filtered = df_2025[df_2025["Date"].dt.month.isin(MONTHS_TO_KEEP)]
RowsFilteredAnyMonth(log) == Rows2025(log)

RowsFiltered(log) ==
    {i \in Rows2025(log) :
        \E k \in 1..Len(MONTHS_TO_KEEP) :
            ToDatetime(log[i].Date).month = MONTHS_TO_KEEP[k]}

\* df_filtered["YearMonth"] = df_filtered["Date"].dt.to_period("M")
YearMonth(log, i) ==
    <<ToDatetime(log[i].Date).year, ToDatetime(log[i].Date).month>>

\* groupby(["Well_ID", "YearMonth"]): the keys, and the rows of one group in
\* the order of the frame.
GroupKeys(log) == {<<log[i].Well_ID, YearMonth(log, i)>> : i \in RowsFiltered(log)}

GroupRows(log, key) ==
    Ascending({i \in RowsFiltered(log) :
                  <<log[i].Well_ID, YearMonth(log, i)>> = key})

\* group["day_diff"] = abs(group["Date"].dt.day - target)
day_diff(log, i) ==
    LET d == ToDatetime(log[i].Date).day
    IN IF d >= 15 THEN d - 15 ELSE 15 - d

\* idxmin(): scan of the group, the first label of the minimum is kept.
RECURSIVE IdxMinLast(_, _, _, _)
IdxMinLast(log, g, k, best) ==
    IF k > Len(g) THEN best
    ELSE IdxMinLast(log, g, k + 1,
                    IF day_diff(log, g[k]) <= day_diff(log, best)
                       THEN g[k] ELSE best)

RECURSIVE IdxMin(_, _, _, _)
IdxMin(log, g, k, best) ==
    IF k > Len(g) THEN best
    ELSE IdxMin(log, g, k + 1,
                IF day_diff(log, g[k]) < day_diff(log, best)
                   THEN g[k] ELSE best)

\* return group.loc[group["day_diff"].idxmin()]
pick_mid_month(log, g) == IdxMin(log, g, 2, g[1])

PickedRows(log) == {pick_mid_month(log, GroupRows(log, key)) : key \in GroupKeys(log)}

\* df_final.sort_values(["Well_ID", "Date"])
RowBefore(log, i, j) ==
    LET a == ToDatetime(log[i].Date)
        b == ToDatetime(log[j].Date)
    IN \/ WellRank(log[i].Well_ID) < WellRank(log[j].Well_ID)
       \/ /\ log[i].Well_ID = log[j].Well_ID
          /\ \/ a.year < b.year
             \/ a.year = b.year /\ a.month < b.month
             \/ a.year = b.year /\ a.month = b.month /\ a.day < b.day
             \/ a = b /\ i <= j

RECURSIVE SortRows(_, _)
SortRows(log, S) ==
    IF S = {} THEN <<>>
    ELSE LET m == CHOOSE x \in S : \A y \in S : RowBefore(log, x, y)
         IN <<m>> \o SortRows(log, S \ {m})

\* pd.read_csv(INPUT_FILE) of a field and to_csv of it: a field that is
\* empty or one of the default NaN texts is NaN, written as an empty field.
ReadCsv(x) == IF x \in {"", "NA", "N/A", "NaN", "nan", "null", "None"} THEN "" ELSE x

\* A row of the filtered file: the Date is written by strftime; row is the
\* label the reading had in the input frame.
FilteredRow(log, i) ==
    [Well_ID |-> log[i].Well_ID, Village |-> ReadCsv(log[i].Village),
     Latitude |-> ReadCsv(log[i].Latitude),
     Longitude |-> ReadCsv(log[i].Longitude),
     Block |-> ReadCsv(log[i].Block),
     Date |-> Strftime(ToDatetime(log[i].Date)),
     Level |-> ReadCsv(log[i].Level), row |-> i]

FilterOutput(log) ==
    LET order == SortRows(log, PickedRows(log))
    IN [k \in 1..Len(order) |-> FilteredRow(log, order[k])]

\* A filter that writes its output, empty or not, and returns True.
filter_cgwb_dataEmptyOutput ==
    /\ ppc = "filter"
    /\ UNCHANGED nonPipeVars
    /\ UNCHANGED <<rawLog, final_cols, wide>>
    /\ ppc' = "merge"
    /\ filtered' = FilterOutput(rawLog)

\* filter_cgwb_data(): False without an output file when no row is of YEAR
\* or of the months to keep (main then stops the pipeline), else the
\* filtered file is written and main goes on to the pivot.
filter_cgwb_data ==
    /\ ppc = "filter"
    /\ UNCHANGED nonPipeVars
    /\ UNCHANGED <<rawLog, final_cols, wide>>
    /\ IF Rows2025(rawLog) = {} \/ RowsFiltered(rawLog) = {}
          THEN /\ ppc' = "filter_failed"
               /\ UNCHANGED filtered
          ELSE /\ ppc' = "merge"
               /\ filtered' = FilterOutput(rawLog)

\* ========================================================================
\* SCRIPT 3: merge_well_readings
\* ========================================================================

\* df["Date"].dt.strftime("%b")
MonthName(dt) ==
    CASE dt.month = 1 -> "Jan"
      [] dt.month = 2 -> "Feb"
      [] dt.month = 4 -> "Apr"
      [] dt.month = 8 -> "Aug"
      [] dt.month = 11 -> "Nov"
      [] OTHER -> "NaT"

\* Alphabetical order of the month names (the order of the pivot's columns).
AlphaRank(m) ==
    CASE m = "Apr" -> 1
      [] m = "Aug" -> 2
      [] m = "Feb" -> 3
      [] m = "Jan" -> 4
      [] m = "Nov" -> 5
      [] OTHER -> 6

\* has_village, has_coords and has_block hold: the header of the combined log
\* always starts with the five metadata names.
metadata_cols == <<"Well_ID", "Village", "Latitude", "Longitude", "Block">>

month_order == <<"Jan", "Apr", "Aug", "Nov">>

\* float(x) of the texts of the model, in tenths; NoFloat when float() raises.
NoFloat == -1

Float(x) ==
    CASE x = "10.5" -> 105
      [] x = "76.9" -> 769
      [] x = "5.2" -> 52
      [] x = "6.0" -> 60
      [] x = "6.5" -> 65
      [] OTHER -> NoFloat

\* Rows of the frame after to_datetime and dropna(subset=["Date"]).
MergeRows(f) == {k \in 1..Len(f) : ToDatetime(f[k].Date) # NaT}

MergeWells(f) == {f[k].Well_ID : k \in MergeRows(f)}

\* "first": the first value of the column that is not NaN; "" when all are.
FirstOfGroup(f, rows, col) ==
    IF rows = <<>> THEN "" ELSE f[Head(rows)][col]

RECURSIVE FirstNonNull(_, _, _)
FirstNonNull(f, rows, col) ==
    IF rows = <<>> THEN ""
    ELSE IF f[Head(rows)][col] # "" THEN f[Head(rows)][col]
    ELSE FirstNonNull(f, Tail(rows), col)

\* pivot_table(index="Well_ID", columns="MonthName", values="Water Level",
\* aggfunc="first"): the value of one cell.
PivotCell(f, w, m) ==
    FirstNonNull(f, Ascending({k \in MergeRows(f) :
                     f[k].Well_ID = w /\ MonthName(ToDatetime(f[k].Date)) = m}),
                 "Level")

\* The pivot keeps (dropna=True) only the months that have a value, and
\* orders its columns by name.
PivotMonths(f) ==
    {MonthName(ToDatetime(f[k].Date)) : k \in {j \in MergeRows(f) : f[j].Level # ""}}

RECURSIVE SortAlpha(_)
SortAlpha(S) ==
    IF S = {} THEN <<>>
    ELSE LET m == CHOOSE x \in S : \A y \in S : AlphaRank(x) <= AlphaRank(y)
         IN <<m>> \o SortAlpha(S \ {m})

PivotColumns(f) == SortAlpha(PivotMonths(f))

InSeq(x, q) == \E k \in 1..Len(q) : q[k] = x

\* existing_months = [m for m in month_order if m in df_final.columns]
ExistingMonthsAsPivoted(f) == PivotColumns(f)

ExistingMonths(f) ==
    SelectSeq(month_order, LAMBDA m : InSeq(m, metadata_cols \o PivotColumns(f)))

\* None in a slot that otherwise holds a float.
None == -2

\* float(row["Latitude"]) / float(row["Longitude"]) raises for this row.
CoordinatesRaise(lat, lon) ==
    /\ lat # "" /\ lon # ""
    /\ \/ lat # "Unknown" /\ Float(lat) = NoFloat
       \/ lon # "Unknown" /\ Float(lon) = NoFloat

\* The value of the coordinates column for a row.
Coordinates(lat, lon) ==
    IF lat # "" /\ lon # ""
       THEN <<IF lat # "Unknown" THEN Float(lat) ELSE None,
              IF lon # "Unknown" THEN Float(lon) ELSE None>>
       ELSE <<None, None>>

\* One row of df_final: groupby("Well_ID").first() for the metadata, the
\* pivot's cells for the months kept, then the coordinates.
WideRow(f, w) ==
    LET rows == Ascending({k \in MergeRows(f) : f[k].Well_ID = w})
        lat == FirstNonNull(f, rows, "Latitude")
        lon == FirstNonNull(f, rows, "Longitude")
    IN [Well_ID |-> w,
        Village |-> FirstNonNull(f, rows, "Village"),
        Latitude |-> lat,
        Longitude |-> lon,
        Block |-> FirstNonNull(f, rows, "Block"),
        months |-> [m \in {ExistingMonths(f)[k] : k \in 1..Len(ExistingMonths(f))}
                       |-> PivotCell(f, w, m)],
        coordinates |-> Coordinates(lat, lon)]

RECURSIVE SortWells(_)
SortWells(S) ==
    IF S = {} THEN <<>>
    ELSE LET m == CHOOSE x \in S : \A y \in S : WellRank(x) <= WellRank(y)
         IN <<m>> \o SortWells(S \ {m})

WideRows(f) ==
    LET order == SortWells(MergeWells(f))
    IN [k \in 1..Len(order) |-> WideRow(f, order[k])]

\* merge_well_readings(): False on an empty file; a float() that raises
\* leaves the function by the exception and no file is written.
merge_well_readings ==
    /\ ppc = "merge"
    /\ UNCHANGED nonPipeVars
    /\ UNCHANGED <<rawLog, filtered>>
    /\ IF filtered = <<>>
          THEN /\ ppc' = "stopped"
               /\ UNCHANGED <<final_cols, wide>>
          ELSE IF \E k \in 1..Len(WideRows(filtered)) :
                      CoordinatesRaise(WideRows(filtered)[k].Latitude,
                                       WideRows(filtered)[k].Longitude)
          THEN /\ ppc' = "crashed"
               /\ UNCHANGED <<final_cols, wide>>
          ELSE /\ ppc' = "merged"
               /\ final_cols' = metadata_cols \o ExistingMonths(filtered)
                                    \o <<"coordinates">>
               /\ wide' = WideRows(filtered)

\* ------------------------------------------------------------------------
\* The filter and the pivot applied to a combined log
\* ------------------------------------------------------------------------

ScrapeIdle ==
    /\ spc = "done"
    /\ idx = 0
    /\ stats = [wells_found |-> 0, wells_downloaded |-> 0, wells_failed |-> 0]
    /\ doc = "Idle"
    /\ attempts = <<>>
    /\ outcome = [w \in Wells |-> "none"]
    /\ failures = [w \in Wells |-> {}]
    /\ abortedAt = ""
    /\ LogStart

PipeInit ==
    /\ ScrapeIdle
    /\ ImportIdle
    /\ WriterIdle
    /\ ppc = "filter"
    /\ rawLog \in Logs
    /\ filtered = <<>>
    /\ final_cols = <<>>
    /\ wide = <<>>

NextPipe ==
    \/ filter_cgwb_data
    \/ merge_well_readings

SpecPipe == PipeInit /\ [][NextPipe]_vars

\* ------------------------------------------------------------------------
\* Properties of the filter and of the pivot
\* ------------------------------------------------------------------------

FilterDone == ppc \in {"merge", "merged", "crashed"}

SameGroup(log, i, j) ==
    /\ log[i].Well_ID = log[j].Well_ID
    /\ ToDatetime(log[i].Date).month = ToDatetime(log[j].Date).month

\* C3: the output of filter_cgwb_data holds at most one reading per
\* (Well_ID, month); it is a reading of the input that passed the year and
\* month filters, no reading of its well and month that passed them is
\* closer to day 15, and none that is as close occurs earlier in the input.
C3_OnePerWellMonthClosestToMidMonth ==
    FilterDone =>
        /\ \A a, b \in 1..Len(filtered) :
              a # b => ~SameGroup(rawLog, filtered[a].row, filtered[b].row)
        /\ \A k \in 1..Len(filtered) :
              LET i == filtered[k].row
              IN /\ i \in RowsFiltered(rawLog)
                 /\ filtered[k].Well_ID = rawLog[i].Well_ID
                 /\ filtered[k].Level = rawLog[i].Level
                 /\ ToDatetime(filtered[k].Date) = ToDatetime(rawLog[i].Date)
                 /\ \A j \in RowsFiltered(rawLog) :
                       SameGroup(rawLog, i, j) =>
                          \/ day_diff(rawLog, i) < day_diff(rawLog, j)
                          \/ day_diff(rawLog, i) = day_diff(rawLog, j) /\ i <= j

\* Two readings of one well and month at the same distance of day 15, the
\* later of the two in the input first by date, and a third one farther.
C3_Witness ==
    /\ ppc = "merge"
    /\ Len(rawLog) = 3
    /\ rawLog[1].Well_ID = "W1" /\ rawLog[1].Date = "2025-01-20"
    /\ rawLog[2].Well_ID = "W1" /\ rawLog[2].Date = "2025-01-10"
    /\ rawLog[3].Well_ID = "W1" /\ rawLog[3].Date = "2025-01-10"
    /\ Len(filtered) = 1
    /\ filtered[1].row = 1

CalendarRank(m) ==
    CASE m = "Jan" -> 1
      [] m = "Apr" -> 4
      [] m = "Aug" -> 8
      [] m = "Nov" -> 11
      [] OTHER -> 0

\* The header of the wide output without the trailing coordinates column is
\* the metadata columns followed by exactly the months of M that are in the
\* window, in calendar order.
HeaderIsMetadataThen(M) ==
    LET cols == SelectSeq(final_cols, LAMBDA c : c # "coordinates")
    IN /\ Len(cols) >= Len(metadata_cols)
       /\ SubSeq(cols, 1, Len(metadata_cols)) = metadata_cols
       /\ {cols[k] : k \in (Len(metadata_cols) + 1)..Len(cols)}
             = {m \in M : CalendarRank(m) > 0}
       /\ \A a, b \in (Len(metadata_cols) + 1)..Len(cols) :
             a < b => CalendarRank(cols[a]) < CalendarRank(cols[b])

MonthsWithReading ==
    {MonthName(ToDatetime(filtered[k].Date)) : k \in 1..Len(filtered)}

MonthsWithLevel ==
    {MonthName(ToDatetime(filtered[k].Date)) :
        k \in {j \in 1..Len(filtered) : filtered[j].Level # ""}}

InWindow(d) ==
    /\ d # NaT
    /\ d.year = YEAR
    /\ \E k \in 1..Len(MONTHS_TO_KEEP) : d.month = MONTHS_TO_KEEP[k]

\* C15: every reading in the output of filter_cgwb_data has a parseable
\* timestamp of the year YEAR and of a month in MONTHS_TO_KEEP, and every
\* (Well_ID, month) for which the input holds such a reading has exactly one
\* reading in the output.
C15_OutputInWindowAndOnePerWellMonth ==
    ppc # "filter" =>
        /\ \A k \in 1..Len(filtered) : InWindow(ToDatetime(filtered[k].Date))
        /\ \A i \in 1..Len(rawLog) :
              InWindow(ToDatetime(rawLog[i].Date)) =>
                 Cardinality({k \in 1..Len(filtered) :
                     /\ filtered[k].Well_ID = rawLog[i].Well_ID
                     /\ ToDatetime(filtered[k].Date).month
                           = ToDatetime(rawLog[i].Date).month}) = 1

C15_Witness ==
    /\ ppc = "merge"
    /\ Len(rawLog) = 3
    /\ rawLog[1].Date = "2024-01-15"
    /\ rawLog[2].Date = "2025-02-15"
    /\ rawLog[3].Date = "2025-04-14"
    /\ Len(filtered) = 1
    /\ filtered[1].Date = "2025-04-14 00:00:00"

NoneInWindow ==
    \A i \in 1..Len(rawLog) : ~InWindow(ToDatetime(rawLog[i].Date))

\* C16 as stated: when no reading survives the year or the month filter,
\* the filter ends normally with an empty output and the pipeline goes on to
\* its caller's next decision.
C16_EmptyOutputIsNotAnError ==
    (ppc # "filter" /\ NoneInWindow) => ppc # "filter_failed"

\* C16: when no reading of the input log survives the year filter or the
\* month filter, filter_cgwb_data returns False and writes no output; main
\* stops the pipeline there, the pivot does not run.
C16_NoSurvivorIsFilterFailure ==
    (ppc # "filter" /\ NoneInWindow) =>
        /\ ppc = "filter_failed"
        /\ filtered = <<>>
        /\ final_cols = <<>>
        /\ wide = <<>>

C16_Witness ==
    /\ ppc = "filter_failed"
    /\ Len(rawLog) = 2
    /\ rawLog[1].Date = "2025-02-15"
    /\ rawLog[2].Date = "2024-01-15"

Unresolved(x) == x = "Unknown" \/ x = "" \/ Float(x) = NoFloat

\* C17: after merge_well_readings the combined position of every well is
\* (absent, absent) when its latitude or longitude is "Unknown", missing or
\* not a number, and the numeric pair otherwise; the pivot is never aborted.
C17_PositionIsPairOrAbsent ==
    /\ ppc # "crashed"
    /\ ppc = "merged" =>
          \A k \in 1..Len(wide) :
              wide[k].coordinates =
                  IF Unresolved(wide[k].Latitude) \/ Unresolved(wide[k].Longitude)
                     THEN <<None, None>>
                     ELSE <<Float(wide[k].Latitude), Float(wide[k].Longitude)>>

MetadataFields == {"Village", "Latitude", "Longitude", "Block"}

ReadingsOf(w) == {k \in 1..Len(filtered) : filtered[k].Well_ID = w}

FirstReadingOf(w) == CHOOSE k \in ReadingsOf(w) : \A j \in ReadingsOf(w) : k <= j

\* C18 as stated: each metadata field of a wide record is the one of the
\* first filtered reading of the well, also when that one is missing.
C18_MetadataOfFirstReading ==
    ppc = "merged" =>
        \A k \in 1..Len(wide) : \A c \in MetadataFields :
            wide[k][c] = filtered[FirstReadingOf(wide[k].Well_ID)][c]

\* C18: each metadata field (Village, Latitude, Longitude, Block) of the wide
\* record of a well is the one of the first filtered reading of that well,
\* in input order, in which the field is not missing, and is missing when
\* it is missing in all of them; a later reading's value replaces the first
\* reading's only when the first reading's is missing.
C18_MetadataOfFirstReadingThatHasIt ==
    ppc = "merged" =>
        \A k \in 1..Len(wide) : \A c \in MetadataFields :
            LET having == {j \in ReadingsOf(wide[k].Well_ID) : filtered[j][c] # ""}
            IN /\ having = {} => wide[k][c] = ""
               /\ having # {} =>
                     \E j \in having :
                         /\ \A h \in having : j <= h
                         /\ wide[k][c] = filtered[j][c]

C18_Witness ==
    /\ ppc = "merged"
    /\ Len(filtered) = 2
    /\ filtered[1].Well_ID = "W2" /\ filtered[1].Village = ""
    /\ filtered[1].Longitude = "76.9"
    /\ filtered[2].Well_ID = "W2" /\ filtered[2].Village = "Unknown"
    /\ filtered[2].Longitude = "Unknown"
    /\ Len(wide) = 1
    /\ wide[1].Village = "Unknown"
    /\ wide[1].Longitude = "76.9"

\* ========================================================================
\* SCRIPT 4: import_well_data (csv1.py and mongo.py)
\* ========================================================================

MaxRecords == 2

MaxFaults == 1

\* Rows of a merged file: at most one row per Well_ID.
Row(w, v, lat, lon, jan, apr) ==
    [Well_ID |-> w, Village |-> v, Latitude |-> lat, Longitude |-> lon,
     Block |-> "Unknown", months |-> [m \in {"Jan", "Apr"} |->
                                         IF m = "Jan" THEN jan ELSE apr],
     coordinates |-> Coordinates(lat, lon)]

RowPool ==
    { Row("W1", "Pollachi", "10.5", "76.9", "5.2", "6.0"),
      Row("W1", "Pollachi", "10.5", "76.9", "5.2", ""),
      Row("W1", "Pollachi", "10.5", "76.9", "6.5", ""),
      Row("W1", "Pollachi", "10.5", "76.9", "Dry", "6.0"),
      Row("W2", "Unknown", "10.5", "76.9", "6.0", ""),
      Row("W2", "Annur", "Unknown", "76.9", "6.0", ""),
      Row("W2", "Annur", "10.5", "", "6.0", ""),
      Row("W2", "Annur", "10.5", "76.9", "6.0", ""),
      Row("W3", "Annur", "10.5", "76.9", "", "6.0") }

RecordFiles ==
    {f \in UNION {[1..n -> RowPool] : n \in 0..MaxRecords} :
        \A a, b \in 1..Len(f) : a # b => f[a].Well_ID # f[b].Well_ID}

\* The check that skips a row: unknown or missing coordinates, then unknown
\* or missing village.
SkipRowCoordinatesOnly(r) ==
    \/ r.Latitude = ""
    \/ r.Longitude = ""
    \/ r.Latitude = "Unknown"
    \/ r.Longitude = "Unknown"

SkipRow(r) ==
    \/ r.Latitude = ""
    \/ r.Longitude = ""
    \/ r.Latitude = "Unknown"
    \/ r.Longitude = "Unknown"
    \/ r.Village = ""
    \/ r.Village = "Unknown"

\* water_cols
WaterKeys == {"january", "april", "august", "november"}

water_cols(key) ==
    CASE key = "january" -> "Jan"
      [] key = "april" -> "Apr"
      [] key = "august" -> "Aug"
      [] key = "november" -> "Nov"

\* if csv_col in row and pd.notna(row[csv_col])
WaterKeysOf(r) ==
    {key \in WaterKeys :
        /\ water_cols(key) \in DOMAIN r.months
        /\ r.months[water_cols(key)] # ""}

\* A float() of the row raises: float(row["Latitude"]), float(row["Longitude"])
\* or float(row[csv_col]).
CoercionFails(r) ==
    \/ Float(r.Latitude) = NoFloat
    \/ Float(r.Longitude) = NoFloat
    \/ \E key \in WaterKeysOf(r) : Float(r.months[water_cols(key)]) = NoFloat

\* parse_coordinates: the pair of floats, or <<>> for None when a float()
\* of a part raises (a part written as None).
parse_coordinates(c) ==
    IF Len(c) = 2 /\ c[1] # None /\ c[2] # None THEN c ELSE <<>>

\* well_doc
WellDoc(r) ==
    LET lat == Float(r.Latitude)
        lon == Float(r.Longitude)
        parsed == parse_coordinates(r.coordinates)
        coords == IF parsed = <<>> THEN <<lat, lon>> ELSE parsed
    IN [f \in {"wellId", "village", "latitude", "longitude", "coordinates"}
                \cup WaterKeysOf(r) |->
           CASE f = "wellId" -> r.Well_ID
             [] f = "village" -> r.Village
             [] f = "latitude" -> lat
             [] f = "longitude" -> lon
             [] f = "coordinates" -> coords
             [] OTHER -> Float(r.months[water_cols(f)])]

\* collection.create_index("wellId", unique=True)
NoUniqueIndex == FALSE

UniqueIndex == TRUE

\* {"$set": well_doc} applied to a document.
SetFields(old, new) ==
    [f \in (DOMAIN old) \cup (DOMAIN new) |->
        IF f \in DOMAIN new THEN new[f] ELSE old[f]]

\* update_one(filter, {"$set": d}, upsert=True) in the collection st, for a
\* filter that matched (m) or not when the collection was queried: the
\* collection afterwards and what the call reports.  An insert that meets a
\* document of the same wellId is refused by the unique index
\* (DuplicateKeyError).
UpdateOne(st, d, m) ==
    LET key == d.wellId
    IN IF m /\ st[key] # <<>>
          THEN [store |-> [st EXCEPT ![key] =
                              <<SetFields(Head(st[key]), d)>> \o Tail(st[key])],
                result |-> IF SetFields(Head(st[key]), d) # Head(st[key])
                              THEN "modified" ELSE "matched"]
       ELSE IF st[key] # <<>> /\ UniqueIndex
          THEN [store |-> st, result |-> "duplicate_key"]
       ELSE [store |-> [st EXCEPT ![key] = Append(st[key], d)],
             result |-> "upserted"]

\* The counter of csv1.py for the result of update_one: upserted_id, then
\* modified_count > 0, else unchanged.
CounterIgnoringModifiedCount(result) ==
    IF result = "upserted" THEN "inserted" ELSE "updated"

CounterModifiedSwapped(result) ==
    CASE result = "upserted" -> "inserted"
      [] result = "modified" -> "unchanged"
      [] OTHER -> "updated"

Counter(result) ==
    CASE result = "upserted" -> "inserted"
      [] result = "modified" -> "updated"
      [] OTHER -> "unchanged"

\* The counter of mongo.py: upserted_id, else updated.
CounterMongo(result) ==
    IF result = "upserted" THEN "inserted" ELSE "updated"

Count(st, c) == [st EXCEPT ![c] = @ + 1]

\* except Exception: stats["errors"] += 1, and the loop goes on.
RowErrorAbort ==
    /\ istats' = Count(istats, "errors")
    /\ ri' = ri
    /\ ipc' = "done"

RowErrorUncounted ==
    /\ istats' = istats
    /\ ri' = ri + 1
    /\ ipc' = "row"

RowError ==
    /\ istats' = Count(istats, "errors")
    /\ ri' = ri + 1
    /\ ipc' = "row"

\* One iteration of "for idx, row in df.iterrows()" up to the call of
\* update_one: the row is skipped, or a float() raises, or update_one raises
\* a store error, or the collection is queried for the wellId.
ImportRow ==
    /\ ipc = "row"
    /\ ri <= Len(records)
    /\ UNCHANGED nonImportVars
    /\ UNCHANGED <<impl, records, store, run, stats1, store1>>
    /\ LET r == records[ri]
       IN IF SkipRow(r)
             THEN /\ istats' = Count(istats, "skipped")
                  /\ ri' = ri + 1
                  /\ UNCHANGED <<ipc, pending, matched, faults>>
          ELSE IF CoercionFails(r)
             THEN /\ RowError
                  /\ UNCHANGED <<pending, matched, faults>>
          ELSE \/ /\ pending' = WellDoc(r)
                  /\ matched' = (store[r.Well_ID] # <<>>)
                  /\ ipc' = "write"
                  /\ UNCHANGED <<istats, ri, faults>>
               \/ /\ faults < MaxFaults
                  /\ faults' = faults + 1
                  /\ RowError
                  /\ UNCHANGED <<pending, matched>>

\* The write of update_one and the counting of its result.
UpsertWrite ==
    /\ ipc = "write"
    /\ UNCHANGED nonImportVars
    /\ UNCHANGED <<impl, records, pending, matched, run, stats1, store1, faults>>
    /\ LET u == UpdateOne(store, pending, matched)
       IN IF u.result = "duplicate_key"
             THEN /\ RowError
                  /\ UNCHANGED store
             ELSE /\ store' = u.store
                  /\ istats' = Count(istats, IF impl = "csv1"
                                                THEN Counter(u.result)
                                                ELSE CounterMongo(u.result))
                  /\ ri' = ri + 1
                  /\ ipc' = "row"

\* The loop is exhausted: the summary is logged.
ImportSummary ==
    /\ ipc = "row"
    /\ ri > Len(records)
    /\ ipc' = "done"
    /\ UNCHANGED nonImportVars
    /\ UNCHANGED <<impl, records, ri, istats, store, pending, matched, run,
                   stats1, store1, faults>>

\* The importer is run once more on the same file.
Rerun ==
    /\ ipc = "done"
    /\ run = 1
    /\ run' = 2
    /\ stats1' = istats
    /\ store1' = store
    /\ istats' = ZeroStats
    /\ ri' = 1
    /\ ipc' = "row"
    /\ UNCHANGED nonImportVars
    /\ UNCHANGED <<impl, records, store, pending, matched, faults>>

StoredRows == {r \in RowPool : ~SkipRow(r) /\ ~CoercionFails(r)}

\* Collections left by earlier imports.
InitialStores ==
    {[w \in WellIds |-> <<>>]}
    \cup {[w \in WellIds |-> IF w = r.Well_ID THEN <<WellDoc(r)>> ELSE <<>>] :
             r \in {x \in StoredRows : x.Well_ID = "W1"}}

ImportStart ==
    /\ ipc = "row"
    /\ impl \in {"csv1", "mongo"}
    /\ records \in RecordFiles
    /\ ri = 1
    /\ istats = ZeroStats
    /\ store \in InitialStores
    /\ pending = NoDoc
    /\ matched = FALSE
    /\ run = 1
    /\ stats1 = ZeroStats
    /\ store1 = [w \in WellIds |-> <<>>]
    /\ faults = 0

ImportInit ==
    /\ ScrapeIdle
    /\ PipeIdle
    /\ ImportStart
    /\ WriterIdle

NextImport ==
    \/ ImportRow
    \/ UpsertWrite
    \/ ImportSummary
    \/ Rerun

SpecImport == ImportInit /\ [][NextImport]_vars

\* ------------------------------------------------------------------------
\* A concurrent writer of the collection: another process that upserts
\* well documents with update_one(..., upsert=True), as both importers do.
\* ------------------------------------------------------------------------

MaxWriterOps == 2

WriterQuery ==
    /\ wpc = "idle"
    /\ wops < MaxWriterOps
    /\ \E r \in StoredRows :
          /\ wpending' = WellDoc(r)
          /\ wmatched' = (store[r.Well_ID] # <<>>)
    /\ wpc' = "write"
    /\ wops' = wops + 1
    /\ UNCHANGED nonWriterVars
    /\ UNCHANGED importVars

WriterWrite ==
    /\ wpc = "write"
    /\ store' = UpdateOne(store, wpending, wmatched).store
    /\ wpc' = "idle"
    /\ UNCHANGED <<wpending, wmatched, wops>>
    /\ UNCHANGED nonWriterVars
    /\ UNCHANGED <<ipc, impl, records, ri, istats, pending, matched, run,
                   stats1, store1, faults>>

\* One run of csv1.py's importer next to the other writer.
ConcurrentInit ==
    /\ ImportInit
    /\ impl = "csv1"
    /\ \A w \in WellIds : store[w] = <<>>

NextConcurrent ==
    \/ ImportRow
    \/ UpsertWrite
    \/ ImportSummary
    \/ WriterQuery
    \/ WriterWrite

SpecConcurrent == ConcurrentInit /\ [][NextConcurrent]_vars

\* ========================================================================
\* MAIN: scrape, filter, pivot, import run one after the other
\* ========================================================================

\* The position of a column in a header row, 0 when it has no such column.
ColumnOf(header, name) ==
    IF \E k \in 1..Len(header) : header[k] = name
       THEN CHOOSE k \in 1..Len(header) : header[k] = name
       ELSE 0

\* pd.read_csv of the combined log the scraper wrote: the first row names
\* the columns, every other row is a reading with the values under them.
ReadLog(log) ==
    IF log = <<>> THEN <<>>
    ELSE LET header == log[1].fields
             d == ColumnOf(header, "Date")
             l == ColumnOf(header, "Water Level")
             rows == Tail(log)
         IN [k \in 1..Len(rows) |->
                Reading(rows[k].fields[ColumnOf(header, "Well_ID")],
                        rows[k].fields[ColumnOf(header, "Village")],
                        rows[k].fields[ColumnOf(header, "Latitude")],
                        rows[k].fields[ColumnOf(header, "Longitude")],
                        rows[k].fields[d],
                        rows[k].fields[l])]

\* pd.read_csv of the merged file: the rows of df_final, a NaN text or an
\* empty field being NaN.
ReadMerged(rows) ==
    [k \in 1..Len(rows) |->
        [rows[k] EXCEPT !.Village = ReadCsv(@),
                        !.Latitude = ReadCsv(@),
                        !.Longitude = ReadCsv(@),
                        !.months = [m \in DOMAIN @ |-> ReadCsv(@[m])]]]

\* main, step 1 to step 2: scrape_coimbatore_data() has returned, the
\* browser and the combined log are closed and the locals of the function
\* are gone (stats stays as the summary that was logged, master and temp as
\* the files on disk); filter_cgwb_data() is called on the combined log.
StartFilter ==
    /\ spc = "done"
    /\ ppc = "idle"
    /\ ppc' = "filter"
    /\ rawLog' = ReadLog(master)
    /\ UNCHANGED <<filtered, final_cols, wide>>
    /\ UNCHANGED <<spc, stats, temp, master>>
    /\ idx' = 0
    /\ doc' = "Closed"
    /\ attempts' = <<>>
    /\ outcome' = [w \in Wells |-> "none"]
    /\ failures' = [w \in Wells |-> {}]
    /\ abortedAt' = ""
    /\ cells' = <<>> /\ well_info' = NoInfo /\ download' = NoFile
    /\ headers_written' = FALSE
    /\ visible' = {} /\ probed' = <<>> /\ clicked' = <<>>
    /\ UNCHANGED <<importVars, writerVars>>

\* main, step 4: merge_well_readings() returned True; connect_to_mongodb
\* and import_well_data on the merged file, or the connection raises and the
\* import is not run.
StartImport ==
    /\ ppc = "merged"
    /\ ipc = "idle"
    /\ UNCHANGED <<impl, istats, store, pending, matched, run, stats1,
                   store1, faults>>
    /\ UNCHANGED <<rawLog, filtered, final_cols, wide>>
    /\ UNCHANGED <<scrapeVars, writerVars>>
    /\ \/ /\ ppc' = "import"
          /\ ipc' = "row"
          /\ ri' = 1
          /\ records' = ReadMerged(wide)
       \/ /\ ppc' = "import_failed"
          /\ UNCHANGED <<ipc, ri, records>>

MainInit ==
    /\ ScrapeStart
    /\ PipeIdle
    /\ ImportIdle
    /\ WriterIdle

NextMain ==
    \/ OpenSite
    \/ SelectFilters
    \/ ClickFilter
    \/ Enumerate
    \/ LoopHead
    \/ SelectWell
    \/ ExtractWellInfo
    \/ Export
    \/ Process
    \/ ReturnToList
    \/ Summary
    \/ StartFilter
    \/ filter_cgwb_data
    \/ merge_well_readings
    \/ StartImport
    \/ ImportRow
    \/ UpsertWrite
    \/ ImportSummary

SpecMain == MainInit /\ [][NextMain]_vars

StoreWritten == \E w \in WellIds : store[w] # <<>>

\* C25: the stages run in the order scrape, filter, pivot, import; the
\* importer only runs when the filter and the pivot both returned True; and
\* a run in which no well was counted in wells_downloaded writes no document
\* to the store.
C25_StoreWrittenOnlyAfterASucceededWell ==
    /\ ppc # "idle" => spc = "done"
    /\ ipc # "idle" => (ppc = "import" /\ filtered # <<>> /\ wide # <<>>)
    /\ StoreWritten => (ppc = "import" /\ stats.wells_downloaded > 0)

\* ------------------------------------------------------------------------
\* Properties of the importer
\* ------------------------------------------------------------------------

\* The precondition of a record fails: Latitude, Longitude or Village is the
\* sentinel "Unknown" or missing.
Sentinel(r) ==
    \/ r.Latitude \in {"Unknown", ""}
    \/ r.Longitude \in {"Unknown", ""}
    \/ r.Village \in {"Unknown", ""}

AtRow == ipc = "row" /\ ri <= Len(records)

PassingRows == {k \in 1..Len(records) : ~Sentinel(records[k])}

RaisingRows == {k \in PassingRows : CoercionFails(records[k])}

SecondRunDone == impl = "csv1" /\ run = 2 /\ ipc = "done" /\ faults = 0

C5_SentinelRecordIsSkippedNotWritten ==
    [][(AtRow /\ Sentinel(records[ri])) =>
          /\ store' = store
          /\ istats' = Count(istats, "skipped")
          /\ ipc' = "row"
          /\ ri' = ri + 1]_vars

C5_Witness ==
    /\ ipc = "done"
    /\ run = 1
    /\ Len(records) = 2
    /\ records[1].Village = "Unknown"
    /\ records[1].Latitude = "10.5"
    /\ istats.skipped = 1
    /\ istats.inserted = 1
    /\ store[records[1].Well_ID] = <<>>

\* C6: with the unique index on wellId, whatever the interleaving of the
\* importer's upserts with those of another writer, the store never holds
\* two documents of one wellId.
C6_AtMostOneDocumentPerWellId ==
    \A w \in WellIds : Len(store[w]) <= 1

\* The importer found no document for its wellId and the other writer
\* has inserted one before the importer's write.
C6_Witness ==
    /\ ipc = "write"
    /\ ~matched
    /\ store[pending.wellId] # <<>>
    /\ wops >= 1

\* C7: a float() that raises for a record, or an update_one that raises a
\* store error, adds exactly one to errors and changes no other counter,
\* leaves the store as the earlier records left it, and the loop goes on
\* with the next record until the file is exhausted.
C7_RecordExceptionIsCountedAndIsolated ==
    /\ [][((AtRow /\ ~Sentinel(records[ri]) /\ CoercionFails(records[ri]))
              \/ faults' = faults + 1) =>
             /\ istats' = Count(istats, "errors")
             /\ store' = store
             /\ ri' = ri + 1
             /\ ipc' = "row"]_vars
    /\ [](ipc = "done" => ri = Len(records) + 1)

C7_Witness ==
    /\ ipc = "done"
    /\ run = 1
    /\ Len(records) = 2
    /\ CoercionFails(records[1])
    /\ istats.errors = 1
    /\ istats.inserted = 1
    /\ store[records[1].Well_ID] = <<>>
    /\ store[records[2].Well_ID] # <<>>

\* C9: the importer of csv1.py counts a written record as inserted exactly
\* when the store held no document of its wellId before the write, as
\* updated exactly when it held one and a written field differed, and as
\* unchanged exactly when it held one and no written field differed.
C9_OutcomeClassification ==
    [][(impl = "csv1" /\ ipc = "write" /\ ipc' = "row") =>
          LET key == pending.wellId
              existed == store[key] # <<>>
              differed == /\ existed
                          /\ \E f \in DOMAIN pending :
                                \/ f \notin DOMAIN store[key][1]
                                \/ store[key][1][f] # pending[f]
          IN /\ ~existed => istats' = Count(istats, "inserted")
             /\ (existed /\ differed) => istats' = Count(istats, "updated")
             /\ (existed /\ ~differed) => istats' = Count(istats, "unchanged")]_vars

C9_Witness ==
    /\ impl = "csv1"
    /\ run = 2
    /\ ipc = "done"
    /\ stats1.inserted = 1
    /\ stats1.updated = 1
    /\ istats.unchanged = 2

\* C10: after a successful upsert over an existing document of the same
\* wellId, the stored document is exactly the record's document: no field of
\* the earlier document that the record lacks survives.
C10_UpsertOverwritesEveryField ==
    [][(ipc = "write" /\ ipc' = "row" /\ store[pending.wellId] # <<>>
           /\ istats'.errors = istats.errors) =>
          store'[pending.wellId] = <<pending>>]_vars

Counted ==
    istats.inserted + istats.updated + istats.unchanged + istats.skipped
        + istats.errors

\* C24: in import_well_data of csv1.py the five counters add up to the
\* number of records processed so far, and to the number of records of the
\* input when the run has ended.
C24_CountersAddUpToRecords ==
    impl = "csv1" =>
        /\ ipc \in {"row", "write"} => Counted = ri - 1
        /\ ipc = "done" => Counted = Len(records)

C24_Witness ==
    /\ impl = "csv1"
    /\ ipc = "done"
    /\ run = 2
    /\ Len(records) = 2
    /\ istats.errors = 1
    /\ istats.unchanged = 1
    /\ stats1.inserted = 1

\* C26: for the same record and the same collection, the importer of
\* mongo.py adds to inserted, updated, skipped and errors what the importer
\* of csv1.py adds (the collection is written by the same update_one).
C26_MongoCountsAsCsv1 ==
    [][(impl = "mongo" /\ ipc = "write" /\ ipc' = "row") =>
          LET u == UpdateOne(store, pending, matched)
              asCsv1 == IF u.result = "duplicate_key"
                           THEN Count(istats, "errors")
                           ELSE Count(istats, Counter(u.result))
          IN /\ store' = u.store
             /\ \A c \in {"inserted", "updated", "skipped", "errors"} :
                   istats'[c] = asCsv1[c]]_vars

====
